---- MODULE Spec2Model ----
(***************************************************************************)
(* enphase_envoy_exporter (src/src/main.rs): the /metrics handler, the     *)
(* three fetch tasks it spawns, and the Client with its token cache behind *)
(* a tokio Mutex.  One action per stretch of code between two await        *)
(* points: the runtime is cooperative (flavor = "current_thread"), so such *)
(* a stretch runs without interleaving.                                    *)
(***************************************************************************)
EXTENDS Integers, Sequences, FiniteSets, TLC

\* ---------------------------------------------------------------- bounds
\* Total number of /metrics requests served in a run.
MaxScrapes == 2
\* Handler invocations that can be in progress at the same time; a new
\* request takes the first slot that is free.
Slots == <<"s1", "s2">>
Scrapes == {Slots[i] : i \in DOMAIN Slots}
\* The three update tasks of one scrape, in the order metrics() spawns
\* them (main.rs 136, 148, 166).
Spawned == <<"production", "inverters", "lifetime">>
Kinds == {Spawned[i] : i \in DOMAIN Spawned}
Tasks == Scrapes \X Kinds

\* Values the outside world can answer with.
Serials == {"INV1", "INV2"}
Watts == {1, 2}
ItemKinds == {"inverters", "eim"}
\* HTTP status codes, one per class the code can tell apart.
StatusCodes == {200, 304, 401, 500}

\* Option<T>: None is the empty sequence, Some(x) the sequence of x alone.
None == <<>>
Some(x) == <<x>>
NoTask == <<"none", "none">>

\* ------------------------------------------------------------- constants
LOGIN_URL == "https://enlighten.enphaseenergy.com/login/login.json"
TOKENS_URL == "https://entrez.enphaseenergy.com/tokens"
PRODUCTION_PATH == "/ivp/meters/reports/production"
INVERTERS_PATH == "/api/v1/production/inverters"
LIFETIME_PATH == "/production.json"

\* struct InverterProduction (main.rs 350-355)
InverterProduction == [serial_num : Serials, last_known_watts : Watts]
\* struct CumulativeProductionResponseItem (main.rs 363-368)
CumulativeProductionResponseItem == [kind : ItemKinds, lifetime_watt_hours : Watts]

SeqsUpTo(S, n) == UNION {[1..m -> S] : m \in 0..n}

\* Bodies the device can send for each endpoint, already decoded: any
\* current-watts value, any list of at most two records.
Bodies(k) ==
    CASE k = "production" -> Watts
      [] k = "inverters" -> SeqsUpTo(InverterProduction, 2)
      [] k = "lifetime" -> SeqsUpTo(CumulativeProductionResponseItem, 2)

\* A device whose readings stay the same: one body per endpoint.
Steady(k) ==
    CASE k = "production" -> {1}
      [] k = "inverters" -> {<<[serial_num |-> "INV1", last_known_watts |-> 1]>>}
      [] k = "lifetime" -> {<<[kind |-> "inverters", lifetime_watt_hours |-> 1]>>}

VARIABLES
    token,                      \* Client.token: the cached Option<String>
    lockHolder,                 \* task owning the Mutex guard, or NoTask
    waiters,                    \* FIFO queue of tasks suspended in lock().await
    pc,                         \* where each spawned task is
    bearer,                     \* the token a task's get() got from token()
    status,                     \* status of the response whose body a task reads
    sent,                       \* per running task: authenticate() calls, requests sent
    outcome,                    \* the Error the latest step failed with, if it did
    issued,                     \* number of tokens the cloud has issued
    fetched,                    \* per scrape in progress: the body each fetch returned
    production_watts,           \* AppState.production_watts gauge
    inverter_production_watts,  \* AppState.inverter_production_watts family
    lifetime_watt_hours,        \* AppState.lifetime_watt_hours counter
    handler,                    \* where each metrics() invocation is
    response,                   \* what each metrics() invocation returned last
    hist                        \* observation only, read by no action's guard:
                                \* scrapes begun, overlaps and failures per slot,
                                \* authenticate() calls made and failed, whether a
                                \* fetch succeeded, whether the device answered
                                \* 401, whether the cached token was used after that

vars == <<token, lockHolder, waiters, pc, bearer, status, sent, outcome,
          issued, fetched, production_watts, inverter_production_watts,
          lifetime_watt_hours, handler, response, hist>>

clientVars == <<token, lockHolder, waiters>>
metricVars == <<production_watts, inverter_production_watts, lifetime_watt_hours>>
handlerVars == <<handler, response>>

TasksOf(s) == {s} \X Kinds
Kind(t) == t[2]

\* ------------------------------------------------ reqwest::Error values
NoError == [kind |-> "none", url |-> "", status |-> 0]
\* send().await failed: connection-level fault (main.rs 244-245, 260-261, 316-317)
RequestError(url) == [kind |-> "request", url |-> url, status |-> 0]
\* json::<R>().await failed on the body's shape (main.rs 248, 319-320)
DecodeError == [kind |-> "decode", url |-> "", status |-> 0]
\* bytes().await failed while reading the body (main.rs 264-266)
BodyError == [kind |-> "body", url |-> "", status |-> 0]
StatusError(url, code) == [kind |-> "status", url |-> url, status |-> code]

IsClientError(code) == code >= 400 /\ code < 500
IsServerError(code) == code >= 500 /\ code < 600

\* Mutant of ErrorForStatus: only client errors are turned into an error.
ErrorForStatusClientOnly(url, code) ==
    IF IsClientError(code) THEN StatusError(url, code) ELSE NoError

\* Response::error_for_status (main.rs 246, 262, 318): an error for a 4xx or
\* 5xx status, carrying the status and the URL of the response; NoError
\* (the response passes) for every other status.
ErrorForStatus(url, code) ==
    IF IsClientError(code) \/ IsServerError(code)
    THEN StatusError(url, code)
    ELSE NoError

\* The path each fetch asks for (main.rs 283, 289, 294) and get()'s URL (314).
Path(k) ==
    CASE k = "production" -> PRODUCTION_PATH
      [] k = "inverters" -> INVERTERS_PATH
      [] k = "lifetime" -> LIFETIME_PATH
\* --envoy.address (main.rs 36-38), any one address.
HOSTNAME == "envoy.local"
DeviceUrl(k) == "https://" \o HOSTNAME \o Path(k)

\* -------------------------------------------------------- pure functions
\* .into_iter().find(|item| item.kind == "inverters") (main.rs 299-300):
\* the first matching item, as a sequence of zero or one item.
RECURSIVE Find(_)
Find(production) ==
    IF production = <<>> THEN <<>>
    ELSE IF Head(production).kind = "inverters" THEN <<Head(production)>>
    ELSE Find(Tail(production))

\* Mutant of LifetimeWattHours: the first item is taken, whatever its type.
LifetimeWattHoursUnfiltered(production) ==
    IF production = <<>> THEN 0 ELSE Head(production).lifetime_watt_hours

\* The closure of lifetime_watt_hours (main.rs 296-303): find, map to the
\* lifetime field, unwrap_or_default (f64::default() is 0.0).
LifetimeWattHours(production) ==
    IF Find(production) = <<>> THEN 0
    ELSE Find(production)[1].lifetime_watt_hours

\* Family::get_or_create(&labels).set(watts) (main.rs 158-161).
GetOrCreateSet(family, serial_num, watts) ==
    [x \in (DOMAIN family) \cup {serial_num} |->
        IF x = serial_num THEN watts ELSE family[x]]

\* Mutant of WriteInverters: the family is rebuilt from the list, dropping
\* the serials the list does not name.
WriteInvertersPruned(family, inverter_production) ==
    [x \in {inverter_production[i].serial_num : i \in DOMAIN inverter_production} |->
        inverter_production[
            CHOOSE i \in DOMAIN inverter_production :
                /\ inverter_production[i].serial_num = x
                /\ \A j \in DOMAIN inverter_production :
                      inverter_production[j].serial_num = x => j <= i
        ].last_known_watts]

\* Mutant of WriteInverters: a list without inverters empties the family.
WriteInvertersResetOnEmpty(family, inverter_production) ==
    IF inverter_production = <<>> THEN [x \in {} |-> 0]
    ELSE WriteInvertersPruned(family, inverter_production) @@ family

\* for inverter in inverter_production { ... } (main.rs 156-162)
RECURSIVE WriteInverters(_, _)
WriteInverters(family, inverter_production) ==
    IF inverter_production = <<>> THEN family
    ELSE WriteInverters(
            GetOrCreateSet(family, Head(inverter_production).serial_num,
                           Head(inverter_production).last_known_watts),
            Tail(inverter_production))

\* encode(&mut buffer, &state.registry) (main.rs 182-183): the three
\* registered metrics as they are at that moment.
Encode ==
    [production_watts |-> production_watts,
     inverter_production_watts |-> inverter_production_watts,
     lifetime_watt_hours |-> lifetime_watt_hours]

NoResponse == [status |-> 0, body |-> <<>>]
NoSent == [auth |-> 0, login |-> 0, tokens |-> 0, device |-> 0]

\* ------------------------------------------------------------------ Init
\* Client::new (main.rs 207-233) and AppState::new (94-130): no token,
\* lock free, all metrics at their default, no request in progress.
Init ==
    /\ token = None
    /\ lockHolder = NoTask
    /\ waiters = <<>>
    /\ pc = [t \in Tasks |-> "idle"]
    /\ bearer = [t \in Tasks |-> None]
    /\ status = [t \in Tasks |-> 0]
    /\ sent = [t \in Tasks |-> NoSent]
    /\ outcome = NoError
    /\ issued = 0
    /\ fetched = [t \in Tasks |-> None]
    /\ production_watts = 0
    /\ inverter_production_watts = [x \in {} |-> 0]
    /\ lifetime_watt_hours = 0
    /\ handler = [s \in Scrapes |-> "idle"]
    /\ response = [s \in Scrapes |-> NoResponse]
    /\ hist = [scrapes |-> 0,
               overlap |-> [s \in Scrapes |-> FALSE],
               failed |-> [s \in Scrapes |-> FALSE],
               authCalls |-> 0,
               authFailed |-> 0,
               fetchOk |-> FALSE,
               unauthorized |-> FALSE,
               reused |-> FALSE]

\* ------------------------------------------------------- the token Mutex
\* Mutant of NextHolder: the permit goes back to the lock and the first
\* waiter is taken off the queue without being given it.
NextHolderLostWakeup(queue) == NoTask

\* Dropping the guard (main.rs 280, or 275 on `?`): tokio's Mutex is FIFO,
\* the permit goes straight to the longest-waiting task, if there is one.
NextHolder(queue) == IF queue = <<>> THEN NoTask ELSE Head(queue)
RestWaiters(queue) == IF queue = <<>> THEN <<>> ELSE Tail(queue)

\* ----------------------------------------------------- handler: metrics()
\* metrics() up to join_all(updates).await (main.rs 133-180): the three
\* update tasks are spawned; none has run yet.
Metrics(s) ==
    /\ handler[s] = "idle"
    /\ \A i, j \in DOMAIN Slots : i < j /\ Slots[j] = s => handler[Slots[i]] = "join"
    /\ hist.scrapes < MaxScrapes
    /\ handler' = [handler EXCEPT ![s] = "join"]
    /\ response' = [response EXCEPT ![s] = NoResponse]
    /\ pc' = [t \in Tasks |-> IF t \in TasksOf(s) THEN "spawned" ELSE pc[t]]
    /\ hist' = [hist EXCEPT
            !.scrapes = @ + 1,
            !.failed[s] = FALSE,
            !.overlap = [x \in Scrapes |->
                IF x = s THEN \E o \in Scrapes \ {s} : handler[o] = "join"
                ELSE IF handler[x] = "join" THEN TRUE ELSE @[x]]]
    /\ outcome' = NoError
    /\ UNCHANGED <<clientVars, metricVars, bearer, status, sent, issued, fetched>>

\* The status of what metrics() returns (main.rs 185-191): the tuple
\* (headers, buffer) is a 200 response, whatever join_all returned.
ResponseStatus(s) == 200

\* Mutant of Respond: the registry is encoded without awaiting join_all.
RespondEarly(s) ==
    /\ handler[s] = "join"
    /\ handler' = [handler EXCEPT ![s] = "idle"]
    /\ response' = [response EXCEPT ![s] =
                        [status |-> ResponseStatus(s), body |-> Encode]]
    /\ hist' = [hist EXCEPT
            !.failed[s] = \E t \in TasksOf(s) : pc[t] = "panicked"]
    /\ fetched' = [t \in Tasks |-> IF t \in TasksOf(s) THEN None ELSE fetched[t]]
    /\ outcome' = NoError
    /\ UNCHANGED <<clientVars, metricVars, pc, bearer, status, sent, issued>>

\* metrics() from join_all's completion to its return (main.rs 180-191):
\* every JoinHandle has resolved, to Ok(()) or to the JoinError of a task
\* that panicked; the results are dropped, the registry is encoded and
\* returned.
Respond(s) ==
    /\ handler[s] = "join"
    /\ \A t \in TasksOf(s) : pc[t] \in {"done", "panicked"}
    /\ handler' = [handler EXCEPT ![s] = "idle"]
    /\ response' = [response EXCEPT ![s] =
                        [status |-> ResponseStatus(s), body |-> Encode]]
    /\ pc' = [t \in Tasks |-> IF t \in TasksOf(s) THEN "idle" ELSE pc[t]]
    /\ hist' = [hist EXCEPT
            !.failed[s] = \E t \in TasksOf(s) : pc[t] = "panicked"]
    /\ fetched' = [t \in Tasks |-> IF t \in TasksOf(s) THEN None ELSE fetched[t]]
    /\ outcome' = NoError
    /\ UNCHANGED <<clientVars, metricVars, bearer, status, sent, issued>>

\* ------------------------------------------------------- Client::token()
\* Mutant of SendGet: the request goes out without the bearer header.
SendGetAnonymous(t, tk) ==
    /\ bearer' = [bearer EXCEPT ![t] = None]
    /\ pc' = [pc EXCEPT ![t] = "get"]
    /\ sent' = [sent EXCEPT ![t].device = @ + 1]
    /\ outcome' = NoError

\* get() with the token in hand (main.rs 312-317): the device request is
\* built with the bearer header and sent.
SendGet(t, tk) ==
    /\ bearer' = [bearer EXCEPT ![t] = Some(tk)]
    /\ pc' = [pc EXCEPT ![t] = "get"]
    /\ sent' = [sent EXCEPT ![t].device = @ + 1]
    /\ outcome' = NoError

\* Mutant of TokenLocked: the match forgets the Some arm and authenticates
\* whatever the cache holds.
TokenLockedNoCheck(t) ==
    /\ pc' = [pc EXCEPT ![t] = "login"]
    /\ lockHolder' = t
    /\ sent' = [sent EXCEPT ![t].auth = @ + 1, ![t].login = @ + 1]
    /\ hist' = [hist EXCEPT !.authCalls = @ + 1]
    /\ outcome' = NoError
    /\ UNCHANGED <<token, waiters, bearer>>

\* Mutant of TokenLocked: the guard taken for the Some arm lives on while
\* get() sends the device request.
TokenLockedHeld(t) ==
    IF token # None
    THEN /\ SendGet(t, token[1])
         /\ lockHolder' = t
         /\ hist' = [hist EXCEPT !.reused = @ \/ hist.unauthorized]
         /\ UNCHANGED <<token, waiters>>
    ELSE TokenLockedNoCheck(t)

\* token() once the guard is owned (main.rs 272-279).  Some(token): the
\* clone is returned, the guard dropped, and get() goes on.  None:
\* authenticate() starts and sends the login request (236-245) with the
\* guard still held.
TokenLocked(t) ==
    IF token # None
    THEN /\ SendGet(t, token[1])
         /\ lockHolder' = NextHolder(waiters)
         /\ waiters' = RestWaiters(waiters)
         /\ hist' = [hist EXCEPT !.reused = @ \/ hist.unauthorized]
         /\ UNCHANGED token
    ELSE /\ pc' = [pc EXCEPT ![t] = "login"]
         /\ lockHolder' = t
         /\ sent' = [sent EXCEPT ![t].auth = @ + 1, ![t].login = @ + 1]
         /\ hist' = [hist EXCEPT !.authCalls = @ + 1]
         /\ outcome' = NoError
         /\ UNCHANGED <<token, waiters, bearer>>

\* The tasks metrics() spawned before task t (main.rs 136-178).
SpawnedBefore(t) ==
    {<<t[1], Spawned[i]>> : i \in {j \in DOMAIN Spawned :
        \E k \in DOMAIN Spawned : j < k /\ Spawned[k] = t[2]}}

\* Mutant of Start: token() reads the cache without taking the lock.
StartUnlocked(t) ==
    /\ pc[t] = "spawned"
    /\ \A u \in SpawnedBefore(t) : pc[u] # "spawned"
    /\ TokenLocked(t)
    /\ UNCHANGED <<status, issued, fetched, metricVars, handlerVars>>

\* First poll of a spawned task: the fetch calls get(), get() calls token(),
\* token() calls self.token.lock().await (main.rs 310, 271).  A free lock
\* is taken at once; otherwise the task joins the queue and suspends.
\* The current_thread runtime (main.rs 53) polls the tasks of a scrape in
\* the order they were spawned in.
Start(t) ==
    /\ pc[t] = "spawned"
    /\ \A u \in SpawnedBefore(t) : pc[u] # "spawned"
    /\ IF lockHolder = NoTask
       THEN TokenLocked(t)
       ELSE /\ waiters' = Append(waiters, t)
            /\ pc' = [pc EXCEPT ![t] = "lock"]
            /\ outcome' = NoError
            /\ UNCHANGED <<token, lockHolder, bearer, sent, hist>>
    /\ UNCHANGED <<status, issued, fetched, metricVars, handlerVars>>

\* lock().await resumes in a task the lock was handed to (main.rs 271).
Wake(t) ==
    /\ pc[t] = "lock"
    /\ lockHolder = t
    /\ TokenLocked(t)
    /\ UNCHANGED <<status, issued, fetched, metricVars, handlerVars>>

\* Mutant of Panic: a device request that failed is sent once more.
PanicResend(t, e) ==
    /\ pc' = [pc EXCEPT ![t] = IF pc[t] = "get" THEN "get" ELSE "panicked"]
    /\ outcome' = e
    /\ status' = [status EXCEPT ![t] = 0]
    /\ bearer' = [bearer EXCEPT ![t] = IF pc[t] = "get" THEN @ ELSE None]
    /\ sent' = [sent EXCEPT ![t] =
                    IF pc[t] = "get" THEN [@ EXCEPT !.device = @ + 1] ELSE NoSent]

\* Mutant of Panic: the panic of one task takes down the tasks of its
\* scrape that are still running.
PanicAbortsScrape(t, e) ==
    /\ pc' = [u \in Tasks |->
                IF u[1] = t[1] /\ pc[u] \notin {"done", "idle"}
                THEN "panicked" ELSE pc[u]]
    /\ outcome' = e
    /\ status' = [status EXCEPT ![t] = 0]
    /\ bearer' = [bearer EXCEPT ![t] = None]
    /\ sent' = [sent EXCEPT ![t] = NoSent]

\* The fetch returned Err(e): .expect(...) panics with e in the message
\* and the task ends, its locals dropped (main.rs 143, 154, 173).
Panic(t, e) ==
    /\ pc' = [pc EXCEPT ![t] = "panicked"]
    /\ outcome' = e
    /\ status' = [status EXCEPT ![t] = 0]
    /\ bearer' = [bearer EXCEPT ![t] = None]
    /\ sent' = [sent EXCEPT ![t] = NoSent]

\* Mutant of AuthFail: token() calls authenticate() again when it failed.
AuthFailRetry(t, e) ==
    /\ pc' = [pc EXCEPT ![t] = "login"]
    /\ status' = [status EXCEPT ![t] = 0]
    /\ sent' = [sent EXCEPT ![t].auth = @ + 1, ![t].login = @ + 1]
    /\ hist' = [hist EXCEPT !.authFailed = @ + 1, !.authCalls = @ + 1]
    /\ outcome' = e
    /\ UNCHANGED <<clientVars, bearer, issued, fetched, metricVars, handlerVars>>

\* Mutant of AuthFail: the guard outlives the failed token() call.
AuthFailKeepsGuard(t, e) ==
    /\ Panic(t, e)
    /\ hist' = [hist EXCEPT !.authFailed = @ + 1]
    /\ UNCHANGED <<clientVars, issued, fetched, metricVars, handlerVars>>

\* authenticate() returned Err(e) (main.rs 275): `?` returns it from
\* token(), dropping the guard with nothing stored, then from get() (310)
\* and from the fetch, whose caller panics.
AuthFail(t, e) ==
    /\ Panic(t, e)
    /\ lockHolder' = NextHolder(waiters)
    /\ waiters' = RestWaiters(waiters)
    /\ hist' = [hist EXCEPT !.authFailed = @ + 1]
    /\ UNCHANGED <<token, issued, fetched, metricVars, handlerVars>>

\* A response arrived and passed error_for_status(): its body is read next.
ReadBody(t, code, next) ==
    /\ pc' = [pc EXCEPT ![t] = next]
    /\ status' = [status EXCEPT ![t] = code]
    /\ outcome' = NoError

\* ------------------------------------------------ Client::authenticate()
\* send().await of the login request resolves (main.rs 240-246): with an
\* error, or with a response, which error_for_status() turns into an error
\* or lets through to response.json().await (248).
LoginResponse(t) ==
    /\ pc[t] = "login"
    /\ \/ AuthFail(t, RequestError(LOGIN_URL))
       \/ \E code \in StatusCodes :
            IF ErrorForStatus(LOGIN_URL, code) # NoError
            THEN AuthFail(t, ErrorForStatus(LOGIN_URL, code))
            ELSE /\ ReadBody(t, code, "login_body")
                 /\ UNCHANGED <<clientVars, bearer, sent, issued,
                                fetched, hist, metricVars, handlerVars>>

\* response.json::<LoginResponse>().await resolves (main.rs 248): with an
\* error, or with the session id, and the token request is sent (252-261).
LoginBody(t) ==
    /\ pc[t] = "login_body"
    /\ \/ AuthFail(t, DecodeError)
       \/ /\ pc' = [pc EXCEPT ![t] = "tokens"]
          /\ status' = [status EXCEPT ![t] = 0]
          /\ sent' = [sent EXCEPT ![t].tokens = @ + 1]
          /\ outcome' = NoError
          /\ UNCHANGED <<clientVars, bearer, issued, fetched, hist,
                         metricVars, handlerVars>>

\* send().await of the token request resolves (main.rs 252-262).
TokensResponse(t) ==
    /\ pc[t] = "tokens"
    /\ \/ AuthFail(t, RequestError(TOKENS_URL))
       \/ \E code \in StatusCodes :
            IF ErrorForStatus(TOKENS_URL, code) # NoError
            THEN AuthFail(t, ErrorForStatus(TOKENS_URL, code))
            ELSE /\ ReadBody(t, code, "tokens_body")
                 /\ UNCHANGED <<clientVars, bearer, sent, issued,
                                fetched, hist, metricVars, handlerVars>>

\* Mutant of StoreToken: the token is returned but never put in the cache.
StoreTokenForgotten(tk) ==
    /\ token' = token
    /\ lockHolder' = NextHolder(waiters)
    /\ waiters' = RestWaiters(waiters)

\* authenticate() returned Ok(tk) (main.rs 275-277): the token is put in
\* the cache and returned; the guard is dropped at the end of token().
StoreToken(tk) ==
    /\ token' = Some(tk)
    /\ lockHolder' = NextHolder(waiters)
    /\ waiters' = RestWaiters(waiters)

\* response.bytes().await resolves (main.rs 264-267): with an error, or
\* with the body, which is the token; token() stores it and get() goes on.
\* The cloud issues a new token each time it is asked.
TokensBody(t) ==
    /\ pc[t] = "tokens_body"
    /\ \/ AuthFail(t, BodyError)
       \/ /\ issued' = issued + 1
          /\ StoreToken(issued + 1)
          /\ SendGet(t, issued + 1)
          /\ status' = [status EXCEPT ![t] = 0]
          /\ UNCHANGED <<fetched, hist, metricVars, handlerVars>>

\* ---------------------------------------------------- the update tasks
\* Mutant of Update: the counter is incremented by the value (Counter's
\* inc_by) where the code stores it.
UpdateIncrementing(k, body) ==
    CASE k = "production" ->
            /\ production_watts' = body
            /\ UNCHANGED <<inverter_production_watts, lifetime_watt_hours>>
      [] k = "inverters" ->
            /\ inverter_production_watts' =
                    WriteInverters(inverter_production_watts, body)
            /\ UNCHANGED <<production_watts, lifetime_watt_hours>>
      [] k = "lifetime" ->
            /\ lifetime_watt_hours' = lifetime_watt_hours + LifetimeWattHours(body)
            /\ UNCHANGED <<production_watts, inverter_production_watts>>

\* What a task does with the value its fetch returned (main.rs 139-144,
\* 156-162, 169-176): set the gauge, set one gauge per list element, or
\* store the bits of the value in the counter.
Update(k, body) ==
    CASE k = "production" ->
            /\ production_watts' = body
            /\ UNCHANGED <<inverter_production_watts, lifetime_watt_hours>>
      [] k = "inverters" ->
            /\ inverter_production_watts' =
                    WriteInverters(inverter_production_watts, body)
            /\ UNCHANGED <<production_watts, lifetime_watt_hours>>
      [] k = "lifetime" ->
            /\ lifetime_watt_hours' = LifetimeWattHours(body)
            /\ UNCHANGED <<production_watts, inverter_production_watts>>

\* The fetch returned Ok(body): the task writes it and ends (main.rs
\* 139-145, 151-163, 169-177).
Finish(t, body) ==
    /\ Update(Kind(t), body)
    /\ fetched' = [fetched EXCEPT ![t] = Some(body)]
    /\ pc' = [pc EXCEPT ![t] = "done"]
    /\ bearer' = [bearer EXCEPT ![t] = None]
    /\ sent' = [sent EXCEPT ![t] = NoSent]
    /\ hist' = [hist EXCEPT !.fetchOk = TRUE]
    /\ outcome' = NoError
    /\ UNCHANGED status

\* Mutant of DeviceResponse: a 401 from the device empties the token cache.
DeviceResponseInvalidating(t, bodies) ==
    /\ pc[t] = "get"
    /\ \/ /\ Panic(t, RequestError(DeviceUrl(Kind(t))))
          /\ UNCHANGED <<token, fetched, metricVars, hist>>
       \/ \E code \in StatusCodes :
            IF ErrorForStatus(DeviceUrl(Kind(t)), code) # NoError
            THEN /\ Panic(t, ErrorForStatus(DeviceUrl(Kind(t)), code))
                 /\ token' = IF code = 401 THEN None ELSE token
                 /\ hist' = [hist EXCEPT !.unauthorized = @ \/ code = 401]
                 /\ UNCHANGED <<fetched, metricVars>>
            ELSE \/ /\ Panic(t, DecodeError)
                    /\ UNCHANGED <<token, fetched, metricVars, hist>>
                 \/ \E body \in bodies : Finish(t, body) /\ UNCHANGED token
    /\ UNCHANGED <<lockHolder, waiters, issued, handlerVars>>

\* The device request of get() completes (main.rs 312-322): send() fails,
\* or the response fails error_for_status(), or the body fails to decode as
\* R, and the task panics; otherwise the fetch returns the decoded value.
\* `bodies` is the set of bodies the device can answer this request with.
DeviceResponse(t, bodies) ==
    /\ pc[t] = "get"
    /\ \/ /\ Panic(t, RequestError(DeviceUrl(Kind(t))))
          /\ UNCHANGED <<fetched, metricVars, hist>>
       \/ \E code \in StatusCodes :
            IF ErrorForStatus(DeviceUrl(Kind(t)), code) # NoError
            THEN /\ Panic(t, ErrorForStatus(DeviceUrl(Kind(t)), code))
                 /\ hist' = [hist EXCEPT !.unauthorized = @ \/ code = 401]
                 /\ UNCHANGED <<fetched, metricVars>>
            ELSE \/ /\ Panic(t, DecodeError)
                    /\ UNCHANGED <<fetched, metricVars, hist>>
                 \/ \E body \in bodies : Finish(t, body)
    /\ UNCHANGED <<clientVars, issued, handlerVars>>

\* Any number of overlapping scrapes of a device whose readings are steady.
Next ==
    \/ \E s \in Scrapes : Metrics(s)
    \/ \E s \in Scrapes : Respond(s)
    \/ \E t \in Tasks : Start(t)
    \/ \E t \in Tasks : Wake(t)
    \/ \E t \in Tasks : LoginResponse(t)
    \/ \E t \in Tasks : LoginBody(t)
    \/ \E t \in Tasks : TokensResponse(t)
    \/ \E t \in Tasks : TokensBody(t)
    \/ \E t \in Tasks : DeviceResponse(t, Steady(Kind(t)))

Spec == Init /\ [][Next]_vars

\* Every step of task t: the runtime polling it, or a network call of its
\* resolving.
TaskStep(t) ==
    \/ Start(t)
    \/ Wake(t)
    \/ LoginResponse(t)
    \/ LoginBody(t)
    \/ TokensResponse(t)
    \/ TokensBody(t)
    \/ DeviceResponse(t, Steady(Kind(t)))

\* Every step but the arrival of a request.
Progress ==
    \/ \E t \in Tasks : TaskStep(t)
    \/ \E s \in Scrapes : Respond(s)

\* The runtime polls every task that is ready (main.rs 53: tokio's run
\* queue is FIFO), the handler included, and every network call returns,
\* with a response or with an error: while some task or handler can take a
\* step, one is taken.  Requests need not keep arriving.
Fairness == WF_vars(Progress)

FairSpec == Init /\ [][Next]_vars /\ Fairness

\* One scrape after the other, of a device whose readings change freely.
NextData ==
    \/ Metrics("s1")
    \/ Respond("s1")
    \/ \E t \in TasksOf("s1") : Start(t)
    \/ \E t \in TasksOf("s1") : Wake(t)
    \/ \E t \in TasksOf("s1") : LoginResponse(t)
    \/ \E t \in TasksOf("s1") : LoginBody(t)
    \/ \E t \in TasksOf("s1") : TokensResponse(t)
    \/ \E t \in TasksOf("s1") : TokensBody(t)
    \/ \E t \in TasksOf("s1") : DeviceResponse(t, Bodies(Kind(t)))

SpecData == Init /\ [][NextData]_vars

\* ---------------------------------------------------------- vocabulary
AuthPcs == {"login", "login_body", "tokens", "tokens_body"}
\* Tasks inside authenticate(): a cloud request of theirs is in flight.
Authenticating == {t \in Tasks : pc[t] \in AuthPcs}
\* Tasks inside token(): suspended on the lock, or authenticating.
InToken == {t \in Tasks : pc[t] = "lock" \/ pc[t] \in AuthPcs}
InQueue(t) == \E i \in DOMAIN waiters : waiters[i] = t
Is2xx(code) == code >= 200 /\ code < 300
\* Task t's fetch returns Ok in this step.
Succeeds(t) == pc[t] = "get" /\ pc'[t] = "done"
\* Task t's fetch returns Err in this step.
Fails(t) == pc[t] \notin {"panicked", "idle"} /\ pc'[t] = "panicked"
\* metrics() invocation s returns its response in this step.
Responds(s) == handler[s] = "join" /\ handler'[s] = "idle"
\* Position i holds the last record of the list for its serial number.
LastForSerial(list, i) ==
    \A j \in DOMAIN list : list[j].serial_num = list[i].serial_num => j <= i
\* Positions of the records of type "inverters".
InverterItems(production) ==
    {i \in DOMAIN production : production[i].kind = "inverters"}
\* Task t calls authenticate() in this step.
CallsAuthenticate(t) == pc[t] \notin AuthPcs /\ pc'[t] = "login"

\* ================================================================ claims
\* C1: at most one authenticate() round-trip is in flight at any time; the
\* task making it owns the lock and the cache is still empty; every other
\* task inside token() is suspended in the lock's queue until it ends.
C1_OneAuthenticationInFlight ==
    /\ Cardinality(Authenticating) <= 1
    /\ \A t \in Authenticating :
          /\ lockHolder = t
          /\ token = None
          /\ \A u \in InToken \ {t} : pc[u] = "lock" /\ InQueue(u)

\* C1 witness: an authentication is in flight while fetches of two
\* overlapping scrapes wait for the lock.
C1_Witness ==
    \E t \in Authenticating :
        \E u, v \in Tasks :
            /\ u[1] = t[1] /\ v[1] # t[1]
            /\ pc[u] = "lock" /\ pc[v] = "lock"
            /\ InQueue(u) /\ InQueue(v)

C3_OneTokenForAllFetches ==
    /\ \A t \in Tasks : pc[t] = "get" => bearer[t] # None /\ bearer[t] = token
    /\ token # None => issued = 1 /\ token = Some(issued)

\* C3 witness: the three fetches of the first scrape, launched on an empty
\* cache, all have their device request in flight with the cached token.
C3_Witness ==
    /\ hist.scrapes = 1
    /\ token # None
    /\ \E s \in Scrapes : \A t \in TasksOf(s) : pc[t] = "get" /\ bearer[t] = token

\* C4 (as claimed): a scrape with a failed fetch answers with a server
\* error.
C4_FailedScrapeIsServerError ==
    \A s \in Scrapes :
        handler[s] = "idle" /\ hist.failed[s] => IsServerError(response[s].status)

\* C5 (as claimed): the response of a scrape whose three fetches succeeded,
\* and which no other scrape overlapped, shows the fetched currW, for every
\* (serial, watts) pair of the fetched list that watts under that serial,
\* and the fetched whLifetime.
C5_EveryPairShown ==
    [][ \A s \in Scrapes :
          (/\ Responds(s)
           /\ ~hist.overlap[s]
           /\ \A t \in TasksOf(s) : pc[t] = "done")
          =>
          LET shown == response'[s].body
              list == fetched[<<s, "inverters">>][1]
              production == fetched[<<s, "lifetime">>][1]
          IN  /\ shown.production_watts = fetched[<<s, "production">>][1]
              /\ \A i \in DOMAIN list :
                    /\ list[i].serial_num \in DOMAIN shown.inverter_production_watts
                    /\ shown.inverter_production_watts[list[i].serial_num]
                          = list[i].last_known_watts
              /\ InverterItems(production) = {} => shown.lifetime_watt_hours = 0
              /\ \A i \in InverterItems(production) :
                    (\A j \in InverterItems(production) : i <= j)
                    => shown.lifetime_watt_hours = production[i].lifetime_watt_hours
      ]_vars

\* C5 (amended): as above, but a serial the list names more than once
\* shows the watts of its last pair.
C5_LastPairShown ==
    [][ \A s \in Scrapes :
          (/\ Responds(s)
           /\ ~hist.overlap[s]
           /\ \A t \in TasksOf(s) : pc[t] = "done")
          =>
          LET shown == response'[s].body
              list == fetched[<<s, "inverters">>][1]
              production == fetched[<<s, "lifetime">>][1]
          IN  /\ shown.production_watts = fetched[<<s, "production">>][1]
              /\ \A i \in DOMAIN list :
                    /\ list[i].serial_num \in DOMAIN shown.inverter_production_watts
                    /\ LastForSerial(list, i) =>
                          shown.inverter_production_watts[list[i].serial_num]
                              = list[i].last_known_watts
              /\ InverterItems(production) = {} => shown.lifetime_watt_hours = 0
              /\ \A i \in InverterItems(production) :
                    (\A j \in InverterItems(production) : i <= j)
                    => shown.lifetime_watt_hours = production[i].lifetime_watt_hours
      ]_vars

\* C5 witness: a second scrape succeeded entirely and its response shows a
\* lifetime value below the one the first scrape had stored, and two
\* inverters.
C5_Witness ==
    /\ hist.scrapes = 2
    /\ \E s \in Scrapes :
          /\ response[s].status = 200
          /\ ~hist.failed[s] /\ ~hist.overlap[s]
          /\ response[s].body.production_watts = 2
          /\ response[s].body.lifetime_watt_hours = 1
          /\ DOMAIN response[s].body.inverter_production_watts = Serials

\* C6: no step removes a serial from the per-inverter family; a gauge of
\* the family changes or appears only when an inverter fetch returns a list
\* naming its serial, and then holds the watts of that list's last pair for
\* the serial; every other gauge keeps its value.
C6_FamilyNeverShrinks ==
    [][ LET family == inverter_production_watts
            Writes(t) == Kind(t) = "inverters" /\ Succeeds(t)
        IN  /\ \A x \in DOMAIN family :
                  /\ x \in DOMAIN family'
                  /\ family'[x] # family[x] =>
                        \E t \in Tasks : Writes(t) /\
                            \E i \in DOMAIN fetched'[t][1] :
                                fetched'[t][1][i].serial_num = x
            /\ \A x \in (DOMAIN family') \ (DOMAIN family) :
                  \E t \in Tasks : Writes(t) /\
                      \E i \in DOMAIN fetched'[t][1] :
                          fetched'[t][1][i].serial_num = x
            /\ \A t \in Tasks : Writes(t) =>
                  \A i \in DOMAIN fetched'[t][1] :
                      LET r == fetched'[t][1][i]
                      IN  /\ r.serial_num \in DOMAIN family'
                          /\ LastForSerial(fetched'[t][1], i) =>
                                family'[r.serial_num] = r.last_known_watts
      ]_vars

\* C6 witness: the second scrape's list names INV1 only, with a new value;
\* INV2, seen in the first scrape, still has its gauge.
C6_Witness ==
    /\ hist.scrapes = 2
    /\ \E t \in Tasks :
          /\ Kind(t) = "inverters"
          /\ fetched[t] = Some(<<[serial_num |-> "INV1", last_known_watts |-> 2]>>)
    /\ DOMAIN inverter_production_watts = Serials
    /\ inverter_production_watts["INV1"] = 2
    /\ inverter_production_watts["INV2"] = 1

\* C7: the value a lifetime fetch returned and the task stored is 0.0 when
\* no record of the list has type "inverters", and otherwise the lifetime
\* watt-hours of the first record of that type; the records of other types
\* do not matter.
C7_LifetimeOfFirstInvertersRecord ==
    \A t \in Tasks :
        Kind(t) = "lifetime" /\ fetched[t] # None =>
            LET production == fetched[t][1]
                hits == InverterItems(production)
                IsInverters(r) == r.kind = "inverters"
            IN  /\ hits = {} => lifetime_watt_hours = 0
                /\ \A i \in hits :
                      (\A j \in hits : i <= j)
                      => lifetime_watt_hours = production[i].lifetime_watt_hours
                /\ LifetimeWattHours(production)
                      = LifetimeWattHours(SelectSeq(production, IsInverters))

\* C7 witness: the list holds a record of another type with another value
\* before the "inverters" record, whose value is stored.
C7_Witness ==
    \E t \in Tasks :
        /\ Kind(t) = "lifetime"
        /\ fetched[t] = Some(<<[kind |-> "eim", lifetime_watt_hours |-> 2],
                               [kind |-> "inverters", lifetime_watt_hours |-> 1]>>)
        /\ lifetime_watt_hours = 1

C9_OneCallPerGap ==
    token = None => hist.authCalls <= 1

\* C9 (amended): at most one authenticate() call is in flight at a time and
\* at most one ever succeeds, and the cache is populated exactly when one
\* has; every other call made while the cache was empty is a call that
\* failed.
C9_OneSuccessPerGap ==
    /\ Cardinality(Authenticating) <= 1
    /\ issued <= 1
    /\ token = None <=> issued = 0
    /\ hist.authCalls = hist.authFailed + issued + Cardinality(Authenticating)

\* C9 witness: a call failed, the cache stayed empty, and the next caller's
\* authenticate() is in flight.
C9_Witness ==
    /\ token = None
    /\ hist.authFailed >= 1
    /\ Authenticating # {}

\* C10: within the first scrape each fetch calls authenticate() at most
\* once, so it is called at most three times, and a second or third call
\* is made only after every earlier one failed.
C10_FirstScrapeCallsAfterFailures ==
    hist.scrapes = 1 =>
        /\ \A t \in Tasks : sent[t].auth <= 1
        /\ hist.authCalls <= Cardinality(Kinds)
        /\ hist.authCalls >= 2 => hist.authFailed >= hist.authCalls - 1

\* C10 witness: one scrape, the cache empty when it began, and
\* authenticate() invoked twice or more.
C10_Witness ==
    /\ hist.scrapes = 1
    /\ hist.authCalls >= 2

\* C11: once the cache holds a token no step clears or replaces it and no
\* task calls authenticate(); every token() call that returns hands out the
\* cached value, so every device request sent from then on carries that one
\* token; a 401 from the device fails the fetch and changes none of this.
C11_CachedTokenIsForever ==
    [][ token # None =>
          /\ token' = token
          /\ issued' = issued
          /\ hist'.authCalls = hist.authCalls
          /\ \A t \in Tasks :
                /\ ~CallsAuthenticate(t)
                /\ pc[t] \in {"spawned", "lock"} /\ pc'[t] \notin {"spawned", "lock"} =>
                      pc'[t] = "get" /\ bearer'[t] = token
                /\ pc[t] = "get" /\ outcome' = StatusError(DeviceUrl(Kind(t)), 401)
                      /\ pc'[t] # "get" => Fails(t)
      ]_vars

\* C11 witness: the device answered 401 to a request carrying the cached
\* token; a token() call made after that returned the same token, and its
\* device request is in flight; authenticate() has run once in all.
C11_Witness ==
    /\ hist.unauthorized /\ hist.reused
    /\ hist.authCalls = 1
    /\ token = Some(1)
    /\ \E t \in Tasks : pc[t] = "get" /\ bearer[t] = token

\* C12: an inverter fetch answered with the empty list returns Ok, its task
\* ends without a panic, and the per-inverter family is left as it was: the
\* family changes only when a non-empty list is written, and the response
\* of a scrape that fetched the empty list shows the family unchanged.
C12_EmptyListLeavesFamily ==
    [][ /\ \A t \in Tasks :
              Kind(t) = "inverters" /\ pc[t] = "get" /\ fetched'[t] = Some(<<>>) =>
                  /\ pc'[t] = "done"
                  /\ inverter_production_watts' = inverter_production_watts
        /\ inverter_production_watts' # inverter_production_watts =>
              \E t \in Tasks :
                  Kind(t) = "inverters" /\ Succeeds(t) /\ fetched'[t] # Some(<<>>)
        /\ \A s \in Scrapes :
              Responds(s) /\ fetched[<<s, "inverters">>] = Some(<<>>) =>
                  /\ pc[<<s, "inverters">>] = "done"
                  /\ response'[s].body.inverter_production_watts
                        = inverter_production_watts
      ]_vars

\* C12 witness: the second scrape's three fetches succeeded, the inverter
\* list was empty, and the family still holds both serials of the first.
C12_Witness ==
    /\ hist.scrapes = 2
    /\ \E s \in Scrapes :
          /\ \A t \in TasksOf(s) : pc[t] = "done"
          /\ fetched[<<s, "inverters">>] = Some(<<>>)
    /\ DOMAIN inverter_production_watts = Serials

\* C13: a fetch sends at most one device request and calls authenticate()
\* at most once, and sends the login request and the token request at most
\* once each, the token request only within an authenticate() call that
\* sent the login request; every step that ends in an error ends the fetch,
\* and a fetch that has failed sends nothing more.
C13_NoRetry ==
    [][ /\ \A t \in Tasks :
              /\ sent'[t].device <= 1
              /\ sent'[t].auth <= 1
              /\ sent'[t].login <= sent'[t].auth
              /\ sent'[t].tokens <= sent'[t].login
              /\ pc[t] = "panicked" =>
                    pc'[t] \in {"panicked", "idle"} /\ sent'[t] = NoSent
        /\ outcome' # NoError => \E t \in Tasks : Fails(t)
      ]_vars

\* C13 witness: one fetch of a scrape failed and stays failed, while
\* another has made its one authenticate() call, with one login and one
\* token request, and has its one device request in flight.
C13_Witness ==
    \E t, u \in Tasks :
        /\ t[1] = u[1]
        /\ pc[u] = "panicked"
        /\ pc[t] = "get"
        /\ sent[t] = [auth |-> 1, login |-> 1, tokens |-> 1, device |-> 1]

\* C14: metrics() returns its response only in a step before which each of
\* the three tasks it spawned has ended, having written its metric or
\* having panicked; the body is the registry as it is at that step; and
\* while no invocation is in progress in a slot, none of its tasks runs.
C14_ResponseAfterAllTasks ==
    [][ \A s \in Scrapes :
          /\ Responds(s) =>
                \A t \in TasksOf(s) :
                    /\ pc[t] \in {"done", "panicked"}
                    /\ pc[t] = "done" => fetched[t] # None
          /\ response'[s] # response[s] /\ response'[s] # NoResponse =>
                Responds(s) /\ response'[s].body = Encode
          /\ handler'[s] = "idle" => \A t \in TasksOf(s) : pc'[t] = "idle"
      ]_vars

\* C14 witness: a scrape has answered after one of its tasks panicked and
\* another wrote the current-watts gauge, which the body shows.
C14_Witness ==
    \E s \in Scrapes :
        /\ handler[s] = "idle"
        /\ hist.failed[s]
        /\ response[s].status = 200
        /\ response[s].body.production_watts = 1
        /\ hist.scrapes = 1

\* C15: with a token cached no authentication is in flight; the lock is
\* owned, if at all, by a task that was handed it and has yet to be polled,
\* never by a task with a request in flight, and only such tasks and the
\* tasks queued behind them are inside token(); a task that calls token()
\* with the lock free, or is polled owning it, goes on to its device
\* request in that same step.
C15_ReadersNeverWaitOnIO ==
    [][ /\ \A t \in Tasks : pc[t] = "get" => lockHolder # t
        /\ token # None =>
              /\ Authenticating = {}
              /\ lockHolder # NoTask => pc[lockHolder] = "lock"
              /\ \A i \in DOMAIN waiters : pc[waiters[i]] = "lock"
              /\ \A t \in Tasks :
                    /\ pc[t] = "spawned" /\ pc'[t] # "spawned" /\ lockHolder = NoTask
                          => pc'[t] = "get"
                    /\ pc[t] = "lock" /\ pc'[t] # "lock" => pc'[t] = "get"
      ]_vars

\* C15 witness: the device requests of all the fetches of two overlapping
\* scrapes are in flight together, the lock free.
C15_Witness ==
    /\ token # None
    /\ lockHolder = NoTask
    /\ \A t \in Tasks : pc[t] = "get"

\* C16: a fetch sends its device request only in the step in which its
\* token() call returns Ok, from the cache or from authenticate(), and the
\* request carries the token returned, which is the cached one; until then
\* it has sent nothing to the device; and a fetch whose authenticate()
\* fails ends with that error, naming a cloud step or a body, with no
\* device request sent.
C16_TokenBeforeDeviceRequest ==
    [][ \A t \in Tasks :
          /\ pc[t] \in AuthPcs \cup {"spawned", "lock"} =>
                sent[t].device = 0 /\ bearer[t] = None
          /\ pc'[t] = "get" /\ pc[t] # "get" =>
                /\ pc[t] \in {"spawned", "lock", "tokens_body"}
                /\ token' # None
                /\ bearer'[t] = token'
          /\ pc[t] = "get" => bearer[t] # None /\ sent[t].device = 1
          /\ Fails(t) /\ pc[t] \in AuthPcs =>
                /\ outcome' # NoError
                /\ outcome'.url \in {LOGIN_URL, TOKENS_URL, ""}
                /\ sent[t].device = 0
      ]_vars

\* C16 witness: two fetches of the first scrape failed inside token() and
\* sent nothing to the device; the third obtained the token and has its
\* device request, carrying it, in flight.
C16_Witness ==
    /\ hist.scrapes = 1
    /\ hist.authFailed = 2
    /\ \E t \in Tasks :
          /\ pc[t] = "get" /\ bearer[t] = token /\ token # None
          /\ \A u \in TasksOf(t[1]) \ {t} : pc[u] = "panicked"

\* C17: the step in which authenticate() fails finds and leaves the cache
\* empty, issues no token, and passes the lock from the failing task to the
\* first task of the queue, or frees it; a queued task leaves the queue
\* only as the owner of the lock, and if it then finds the cache empty it
\* calls authenticate() itself, keeping the lock.
C17_FailedAuthenticateFreesLock ==
    [][ \A t \in Tasks :
          /\ Fails(t) /\ pc[t] \in AuthPcs =>
                /\ token = None /\ token' = None
                /\ issued' = issued
                /\ lockHolder = t /\ lockHolder' # t
                /\ lockHolder' = NextHolder(waiters)
                /\ waiters' = RestWaiters(waiters)
          /\ pc[t] = "lock" /\ pc'[t] # "lock" =>
                /\ lockHolder = t
                /\ ~InQueue(t)
                /\ token = None => CallsAuthenticate(t) /\ lockHolder' = t
      ]_vars

\* C17 witness: two authenticate() calls have failed, the cache is empty,
\* and the task admitted next is authenticating while another still waits.
C17_Witness ==
    /\ token = None
    /\ hist.authFailed = 2
    /\ waiters # <<>>
    /\ \E t \in Authenticating : lockHolder = t /\ sent[t].auth = 1

\* C18: the step in which a fetch fails writes no metric cell and moves no
\* other task: every other task stays where it is, with the token and the
\* request counts it had; and each metric cell changes only in the step in
\* which a fetch of its own kind succeeds.
C18_TasksFailIndependently ==
    [][ /\ \A t \in Tasks : Fails(t) =>
              /\ production_watts' = production_watts
              /\ inverter_production_watts' = inverter_production_watts
              /\ lifetime_watt_hours' = lifetime_watt_hours
              /\ \A u \in Tasks \ {t} :
                    pc'[u] = pc[u] /\ bearer'[u] = bearer[u] /\ sent'[u] = sent[u]
        /\ production_watts' # production_watts =>
              \E t \in Tasks : Kind(t) = "production" /\ Succeeds(t)
        /\ inverter_production_watts' # inverter_production_watts =>
              \E t \in Tasks : Kind(t) = "inverters" /\ Succeeds(t)
        /\ lifetime_watt_hours' # lifetime_watt_hours =>
              \E t \in Tasks : Kind(t) = "lifetime" /\ Succeeds(t)
      ]_vars

\* C18 witness: in the first scrape the current-watts fetch failed and its
\* gauge is still at its initial value, while the two other tasks ran to
\* their end and wrote the family and the counter.
C18_Witness ==
    /\ hist.scrapes = 1
    /\ \E s \in Scrapes :
          /\ pc[<<s, "production">>] = "panicked"
          /\ pc[<<s, "inverters">>] = "done"
          /\ pc[<<s, "lifetime">>] = "done"
    /\ production_watts = 0
    /\ DOMAIN inverter_production_watts = {"INV1"}
    /\ lifetime_watt_hours = 1

\* C19: when the runtime is fair and every network call returns, every
\* metrics() invocation in progress returns its response (a handler is
\* "join" or "idle", so it is idle again and again), every task that owns
\* the lock gives it up and, requests being finitely many, the lock is
\* free again and again.  And as long as an authenticate() call has not
\* returned, its task owns the lock, no task that has yet to get through
\* token() gets through, and no scrape with such a task answers.
C19_ScrapesAnswerAndLockFrees ==
    /\ \A s \in Scrapes : []<>(handler[s] = "idle")
    /\ \A t \in Tasks : []<>(lockHolder # t)
    /\ []<>(lockHolder = NoTask)
    /\ [][ \A t \in Authenticating :
              pc'[t] \in AuthPcs =>
                  /\ lockHolder = t /\ lockHolder' = t
                  /\ \A u \in Tasks \ {t} :
                        pc[u] \in {"spawned", "lock"} =>
                            /\ pc'[u] \in {"spawned", "lock"}
                            /\ handler'[u[1]] = "join"
         ]_vars

\* C19 witness: two overlapping scrapes, one fetch authenticating with the
\* lock, the five other fetches queued on the lock behind it.
C19_Witness ==
    /\ \A s \in Scrapes : handler[s] = "join"
    /\ \E t \in Authenticating :
          /\ lockHolder = t
          /\ \A u \in Tasks \ {t} : pc[u] = "lock" /\ InQueue(u)

====
